---- MODULE Spec2Model ----
(***************************************************************************)
(* x64_writer: operands (registers, immediates, labels, memory), their     *)
(* AT&T rendering, size inference and the AsmWriter emission calls.        *)
(*                                                                         *)
(* Text is modelled as the sequence of pieces a formatter hands to the     *)
(* sink, one piece per literal or argument of a write!/writeln! format     *)
(* string; Flatten joins pieces into the string the sink ends up holding.  *)
(* An Option is a sequence of length 0 (None) or 1 (Some).                 *)
(***************************************************************************)
EXTENDS Integers, Sequences, FiniteSets, TLC

VARIABLES
    reg,              \* SpecReg: the Register being rendered
    regtext,          \* SpecReg: Option of the pieces Display wrote for reg
    mem,              \* SpecMem: Option of the Memory held by the builder chain
    prev,             \* SpecMem: Option of the Memory the last builder call received
    bcall,            \* SpecMem: the last builder call, [op, arg]
    bpanic,           \* SpecMem: TRUE once a builder call has panicked
    steps,            \* SpecMem: number of builder calls made so far
    overflow_checks,  \* build profile: TRUE when integer overflow panics (debug)
    opa,              \* SpecSize: the first operand handed to get_size
    opb,              \* SpecSize: the second operand handed to get_size
    sizes,            \* SpecSize: Option of <<get_size(opa, opb), get_size(opb, opa)>>
    operand,          \* SpecArg: the operand whose size is asked for
    operand_size,     \* SpecArg: Option of what Arg::size returned for operand
    caller,           \* the operands, operations and number of calls of the calling program
    out,              \* AsmWriter.out: the write attempts the sink has seen
    calls,            \* the writer calls made so far, in invocation order
    aborted           \* TRUE once an emission call has panicked

vars == <<reg, regtext, mem, prev, bcall, bpanic, steps, overflow_checks,
          opa, opb, sizes, operand, operand_size, caller, out, calls, aborted>>

regVars == <<reg, regtext>>
memVars == <<mem, prev, bcall, bpanic, steps, overflow_checks>>
sizeVars == <<opa, opb, sizes>>
operandVars == <<operand, operand_size>>
writerVars == <<caller, out, calls, aborted>>

None == <<>>
Some(x) == <<x>>
is_some(o) == o # None
unwrap(o) == o[1]

\* One formatter write of a string: an empty string reaches the sink as nothing.
W(s) == IF s = "" THEN <<>> ELSE <<s>>

RECURSIVE Flatten(_)
Flatten(pieces) ==
    IF pieces = <<>> THEN "" ELSE Head(pieces) \o Flatten(Tail(pieces))

(***************************************************************************)
(* register.rs                                                             *)
(***************************************************************************)
RegisterName == {"A", "B", "C", "D", "SI", "DI", "SP", "BP",
                 "R8", "R9", "R10", "R11", "R12", "R13", "R14", "R15"}

RegisterSize == {"Byte", "Word", "Double", "Quad"}

\* Register(pub RegisterName, pub RegisterSize): r[1] is .0, r[2] is .1
Register == RegisterName \X RegisterSize

name(n) ==
    CASE n = "A" -> "a"
      [] n = "B" -> "b"
      [] n = "C" -> "c"
      [] n = "D" -> "d"
      [] n = "SI" -> "si"
      [] n = "DI" -> "di"
      [] n = "SP" -> "sp"
      [] n = "BP" -> "bp"
      [] n = "R8" -> "r8"
      [] n = "R9" -> "r9"
      [] n = "R10" -> "r10"
      [] n = "R11" -> "r11"
      [] n = "R12" -> "r12"
      [] n = "R13" -> "r13"
      [] n = "R14" -> "r14"
      [] n = "R15" -> "r15"

is_sandwich(n) == n \in {"A", "B", "C", "D"}

is_pointer(n) == n \in {"SI", "DI", "SP", "BP"}

is_numbered(n) == n \in {"R8", "R9", "R10", "R11", "R12", "R13", "R14", "R15"}

sandwich_affixes(s) ==
    CASE s = "Byte" -> <<"", "l">>
      [] s = "Word" -> <<"", "x">>
      [] s = "Double" -> <<"e", "x">>
      [] s = "Quad" -> <<"r", "x">>

\* Mutant of pointer_affixes: the word row takes the double row's prefix.
pointer_affixes_word_e(s) ==
    CASE s = "Byte" -> <<"", "l">>
      [] s = "Word" -> <<"e", "">>
      [] s = "Double" -> <<"e", "">>
      [] s = "Quad" -> <<"r", "">>

pointer_affixes(s) ==
    CASE s = "Byte" -> <<"", "l">>
      [] s = "Word" -> <<"", "">>
      [] s = "Double" -> <<"e", "">>
      [] s = "Quad" -> <<"r", "">>

numbered_affixes(s) ==
    CASE s = "Byte" -> <<"", "b">>
      [] s = "Word" -> <<"", "w">>
      [] s = "Double" -> <<"", "d">>
      [] s = "Quad" -> <<"", "">>

\* The pieces a panicking Display leaves: the marker of the unreachable!() branch.
Unreachable == <<"<unreachable>">>

\* The if / else-if chain of Display for Register that selects the affix table.
get_affixes(r) ==
    IF is_sandwich(r[1]) THEN Some(sandwich_affixes(r[2]))
    ELSE IF is_pointer(r[1]) THEN Some(pointer_affixes(r[2]))
    ELSE IF is_numbered(r[1]) THEN Some(numbered_affixes(r[2]))
    ELSE None

\* Display for Register: write!(f, "%{prefix}{name}{suffix}")
DisplayRegister(r) ==
    IF get_affixes(r) = None THEN Unreachable
    ELSE LET affixes == unwrap(get_affixes(r))
         IN  W("%") \o W(affixes[1]) \o W(name(r[1])) \o W(affixes[2])

with_size(n, s) == <<n, s>>
rax == with_size("A", "Quad")
eax == with_size("A", "Double")
rbx == with_size("B", "Quad")

(***************************************************************************)
(* label.rs                                                                *)
(***************************************************************************)
\* Label { label: &str }
Label(text) == [label |-> text]

DisplayLabel(l) == W(l.label)

(***************************************************************************)
(* args.rs: ArgSize, ConstInt, Scale                                       *)
(***************************************************************************)
ArgSize == {"Byte", "Word", "Double", "Quad"}

ArgSize_suffix(s) ==
    CASE s = "Byte" -> "b"
      [] s = "Word" -> "w"
      [] s = "Double" -> "l"
      [] s = "Quad" -> "q"

Variants == {"I8", "U8", "I32", "U32", "I64", "U64"}

\* ConstInt::I8(v) ... ConstInt::U64(v).  Payloads are integers TLC can hold
\* (below 2^31), so of the four variants that can be added only I32 can
\* leave its range: two such payloads never add up to 2^32 or more.
ConstInt(variant, v) == [variant |-> variant, v |-> v]

I32Max == 2147483647
I32Min == (-I32Max) - 1

is_zero(c) == c.v = 0

\* Mutant of is_negative: the I8 arm answers like the U8 arm.
is_negative_i8_unsigned(c) ==
    CASE c.variant = "I8" -> FALSE
      [] c.variant = "U8" -> FALSE
      [] c.variant = "I32" -> c.v < 0
      [] c.variant = "U32" -> FALSE
      [] c.variant = "I64" -> c.v < 0
      [] c.variant = "U64" -> FALSE

is_negative(c) ==
    CASE c.variant = "I8" -> c.v < 0
      [] c.variant = "U8" -> FALSE
      [] c.variant = "I32" -> c.v < 0
      [] c.variant = "U32" -> FALSE
      [] c.variant = "I64" -> c.v < 0
      [] c.variant = "U64" -> FALSE

Digit(d) == <<"0", "1", "2", "3", "4", "5", "6", "7", "8", "9">>[d + 1]

\* The decimal digits of |v|, computed without negating v.
RECURSIVE Digits(_)
Digits(v) ==
    LET d == IF v >= 0 THEN v % 10 ELSE (10 - (v % 10)) % 10
        rest == IF v >= 0 THEN v \div 10 ELSE (v + d) \div 10
    IN  IF rest = 0 THEN Digit(d) ELSE Digits(rest) \o Digit(d)

\* Display for the primitive integers: an optional '-' and the decimal digits.
DecStr(v) == IF v < 0 THEN "-" \o Digits(v) ELSE Digits(v)

\* Display for ConstInt: write!(f, "{v}")
DisplayConstInt(c) == W(DecStr(c.v))

\* What a panic!() or a failed assertion leaves in place of a value.
Panic == [panicked |-> TRUE]

\* a + b on i32: a panic with overflow checks on, two's complement wrap-around without.
add_i32(a, b, checks) ==
    IF b > 0 /\ a > I32Max - b
    THEN IF checks THEN Panic ELSE ConstInt("I32", (a - I32Max - 1) + (b - I32Max - 1))
    ELSE IF b < 0 /\ a < I32Min - b
    THEN IF checks THEN Panic ELSE ConstInt("I32", (a + I32Max + 1) + (b + I32Max + 1))
    ELSE ConstInt("I32", a + b)

\* impl AddAssign for ConstInt: the value left in *self, or Panic.
add_assign(self, rhs, checks) ==
    CASE self.variant = "I32" /\ rhs.variant = "I32" -> add_i32(self.v, rhs.v, checks)
      [] self.variant = "U32" /\ rhs.variant = "U32" -> ConstInt("U32", self.v + rhs.v)
      [] self.variant = "I64" /\ rhs.variant = "I64" -> ConstInt("I64", self.v + rhs.v)
      [] self.variant = "U64" /\ rhs.variant = "U64" -> ConstInt("U64", self.v + rhs.v)
      [] OTHER -> Panic

Scale == {"One", "Two", "Four", "Eight"}

DisplayScale(s) ==
    CASE s = "One" -> W("1")
      [] s = "Two" -> W("2")
      [] s = "Four" -> W("4")
      [] s = "Eight" -> W("8")

(***************************************************************************)
(* args.rs: Memory, MemoryKind, SibMemory                                  *)
(***************************************************************************)
Rip == [tag |-> "Rip"]
Sib(m) == [tag |-> "Sib", m |-> m]

sib ==
    [size |-> None,
     displacement_label |-> None,
     displacement_constant |-> None,
     kind |-> Sib([base |-> None, index |-> None])]

rip ==
    [size |-> None,
     displacement_label |-> None,
     displacement_constant |-> None,
     kind |-> Rip]

base(self, r) ==
    IF self.kind.tag # "Sib" THEN Panic
    ELSE [self EXCEPT !.kind.m.base = Some(r)]

index(self, r, scale) ==
    IF self.kind.tag # "Sib" THEN Panic
    ELSE [self EXCEPT !.kind.m.index = Some(<<r, scale>>)]

offset(self, disp, checks) ==
    IF is_some(self.displacement_constant)
    THEN LET sum == add_assign(unwrap(self.displacement_constant), disp, checks)
         IN  IF sum = Panic THEN Panic
             ELSE [self EXCEPT !.displacement_constant = Some(sum)]
    ELSE [self EXCEPT !.displacement_constant = Some(disp)]

\* Mutant of label: the check for an attached label is gone.
label_unchecked(self, l) == [self EXCEPT !.displacement_label = Some(l)]

label(self, l) ==
    IF is_some(self.displacement_label) THEN Panic
    ELSE [self EXCEPT !.displacement_label = Some(l)]

size(self, s) == [self EXCEPT !.size = Some(s)]

\* Label::rip
Label_rip(l) == label(rip, Label(l.label))

\* Register::memory
Register_memory(r) == base(sib, r)

\* Mutant of DisplaySibMemory: the scale is written whatever its value.
DisplaySibMemory_scale_one(m) ==
    LET any == is_some(m.base) \/ is_some(m.index)
    IN  (IF any THEN W("(") ELSE <<>>)
        \o (IF is_some(m.base) THEN DisplayRegister(unwrap(m.base)) ELSE <<>>)
        \o (IF is_some(m.index)
            THEN W(", ") \o DisplayRegister(unwrap(m.index)[1])
                 \o W(", ") \o DisplayScale(unwrap(m.index)[2])
            ELSE <<>>)
        \o (IF any THEN W(")") ELSE <<>>)

\* Display for SibMemory
DisplaySibMemory(m) ==
    LET any == is_some(m.base) \/ is_some(m.index)
    IN  (IF any THEN W("(") ELSE <<>>)
        \o (IF is_some(m.base) THEN DisplayRegister(unwrap(m.base)) ELSE <<>>)
        \o (IF is_some(m.index)
            THEN W(", ") \o DisplayRegister(unwrap(m.index)[1])
                 \o (IF unwrap(m.index)[2] # "One"
                     THEN W(", ") \o DisplayScale(unwrap(m.index)[2])
                     ELSE <<>>)
            ELSE <<>>)
        \o (IF any THEN W(")") ELSE <<>>)

\* Display for MemoryKind
DisplayMemoryKind(k) ==
    IF k.tag = "Rip" THEN W("(%rip)") ELSE DisplaySibMemory(k.m)

\* Display for Memory
DisplayMemory(self) ==
    (IF is_some(self.displacement_label)
     THEN DisplayLabel(unwrap(self.displacement_label))
     ELSE <<>>)
    \o (IF is_some(self.displacement_constant)
           /\ ~is_zero(unwrap(self.displacement_constant))
        THEN (IF is_some(self.displacement_label)
                 /\ ~is_negative(unwrap(self.displacement_constant))
              THEN W("+")
              ELSE <<>>)
             \o DisplayConstInt(unwrap(self.displacement_constant))
        ELSE <<>>)
    \o DisplayMemoryKind(self.kind)

(***************************************************************************)
(* args.rs: Arg                                                            *)
(***************************************************************************)
\* enum Arg: a tag and the value it carries
ArgRegister(r) == <<"Register", r>>
ArgLabel(l) == <<"Label", l>>
ArgInt(c) == <<"Int", c>>
ArgMemory(m) == <<"Memory", m>>

\* Mutant of Arg_size: the U32 arm answers like the 64-bit arm.
Arg_size_u32_quad(self) ==
    CASE self[1] = "Register" ->
            Some(CASE self[2][2] = "Byte" -> "Byte"
                   [] self[2][2] = "Word" -> "Word"
                   [] self[2][2] = "Double" -> "Double"
                   [] self[2][2] = "Quad" -> "Quad")
      [] self[1] = "Int" ->
            Some(CASE self[2].variant \in {"I8", "U8"} -> "Byte"
                   [] self[2].variant = "I32" -> "Double"
                   [] self[2].variant = "U32" -> "Quad"
                   [] self[2].variant \in {"I64", "U64"} -> "Quad")
      [] self[1] = "Label" -> None
      [] self[1] = "Memory" -> self[2].size

\* Arg::size
Arg_size(self) ==
    CASE self[1] = "Register" ->
            Some(CASE self[2][2] = "Byte" -> "Byte"
                   [] self[2][2] = "Word" -> "Word"
                   [] self[2][2] = "Double" -> "Double"
                   [] self[2][2] = "Quad" -> "Quad")
      [] self[1] = "Int" ->
            Some(CASE self[2].variant \in {"I8", "U8"} -> "Byte"
                   [] self[2].variant = "I32" -> "Double"
                   [] self[2].variant = "U32" -> "Double"
                   [] self[2].variant \in {"I64", "U64"} -> "Quad")
      [] self[1] = "Label" -> None
      [] self[1] = "Memory" -> self[2].size

is_register(self) == self[1] = "Register"

is_memory(self) == self[1] = "Memory"

\* Display for Arg
DisplayArg(self) ==
    CASE self[1] = "Int" -> W("$") \o DisplayConstInt(self[2])
      [] self[1] = "Label" -> DisplayLabel(self[2])
      [] self[1] = "Register" -> DisplayRegister(self[2])
      [] self[1] = "Memory" -> DisplayMemory(self[2])

(***************************************************************************)
(* writer.rs: get_size                                                     *)
(***************************************************************************)
\* What get_size leaves when it panics; its results are otherwise ArgSize values.
SizePanic == "panic!"

\* Mutant of get_size: a known size is taken from the first operand only.
get_size_first(a, b) ==
    LET sa == Arg_size(a)
        sb == Arg_size(b)
    IN  CASE sa = None /\ sb = None -> SizePanic
          [] sa # None /\ sb = None -> unwrap(sa)
          [] sa = None /\ sb # None -> SizePanic
          [] sa # None /\ sb # None ->
                IF unwrap(sa) = unwrap(sb) THEN unwrap(sa) ELSE SizePanic

\* Mutant of get_size: with two known sizes the assertion is gone and the
\* second one is returned.
get_size_second(a, b) ==
    LET sa == Arg_size(a)
        sb == Arg_size(b)
    IN  CASE sa = None /\ sb = None -> SizePanic
          [] sa # None /\ sb = None -> unwrap(sa)
          [] sa = None /\ sb # None -> unwrap(sb)
          [] sa # None /\ sb # None -> unwrap(sb)

get_size(a, b) ==
    LET sa == Arg_size(a)
        sb == Arg_size(b)
    IN  CASE sa = None /\ sb = None -> SizePanic
          [] sa # None /\ sb = None -> unwrap(sa)
          [] sa = None /\ sb # None -> unwrap(sb)
          [] sa # None /\ sb # None ->
                IF unwrap(sa) = unwrap(sb) THEN unwrap(sa) ELSE SizePanic

LabelNames == {"name", "f"}

(***************************************************************************)
(* writer.rs: operation tags                                               *)
(***************************************************************************)
BinaryOpSingle ==
    {"Add", "Sub", "IMul", "And", "Or", "Xor", "Lea", "Cmp", "Test", "Shl", "Shr", "Sar"}

BinaryOpSingle_mnemonic(op) ==
    CASE op = "Add" -> "add"
      [] op = "Sub" -> "sub"
      [] op = "IMul" -> "imul"
      [] op = "And" -> "and"
      [] op = "Or" -> "or"
      [] op = "Xor" -> "xor"
      [] op = "Lea" -> "lea"
      [] op = "Cmp" -> "cmp"
      [] op = "Test" -> "test"
      [] op = "Shl" -> "shl"
      [] op = "Shr" -> "shr"
      [] op = "Sar" -> "sar"

UnaryOpSingle == {"Inc", "Dec", "Neg", "Not", "Mul", "IMul", "Div", "IDiv"}

UnaryOpSingle_mnemonic(op) ==
    CASE op = "Inc" -> "inc"
      [] op = "Dec" -> "dec"
      [] op = "Neg" -> "neg"
      [] op = "Not" -> "not"
      [] op = "Mul" -> "mul"
      [] op = "IMul" -> "imul"
      [] op = "Div" -> "div"
      [] op = "IDiv" -> "idiv"

NonaryOp == {"Ret"}

NonaryOp_mnemonic(op) == CASE op = "Ret" -> "ret"

Condition ==
    {"Zero", "NotZero", "Equal", "NotEqual", "Negative", "NonNegative", "GreaterThan",
     "LessThan", "GreaterEqual", "LessEqual", "Above", "Below", "AboveEqual", "BelowEqual"}

\* Mutant of Condition_suffix: the suffixes of Above and Below are exchanged.
Condition_suffix_above_below(c) ==
    CASE c = "Zero" -> "z"
      [] c = "NotZero" -> "nz"
      [] c = "Equal" -> "e"
      [] c = "NotEqual" -> "ne"
      [] c = "Negative" -> "s"
      [] c = "NonNegative" -> "ns"
      [] c = "GreaterThan" -> "g"
      [] c = "LessThan" -> "l"
      [] c = "GreaterEqual" -> "ge"
      [] c = "LessEqual" -> "le"
      [] c = "Above" -> "b"
      [] c = "Below" -> "a"
      [] c = "AboveEqual" -> "ae"
      [] c = "BelowEqual" -> "be"

Condition_suffix(c) ==
    CASE c = "Zero" -> "z"
      [] c = "NotZero" -> "nz"
      [] c = "Equal" -> "e"
      [] c = "NotEqual" -> "ne"
      [] c = "Negative" -> "s"
      [] c = "NonNegative" -> "ns"
      [] c = "GreaterThan" -> "g"
      [] c = "LessThan" -> "l"
      [] c = "GreaterEqual" -> "ge"
      [] c = "LessEqual" -> "le"
      [] c = "Above" -> "a"
      [] c = "Below" -> "b"
      [] c = "AboveEqual" -> "ae"
      [] c = "BelowEqual" -> "be"

(***************************************************************************)
(* writer.rs: the line each AsmWriter call formats.  A line is the         *)
(* sequence of pieces writeln! hands to the sink, the newline last; a call *)
(* that panics before formatting has the line LinePanic.                   *)
(***************************************************************************)
LinePanic == <<"panic!">>

\* Mutant of writeln: write! in place of writeln!, no newline.
writeln_no_newline(pieces) == pieces

\* writeln!: the pieces of the format string, then the newline
writeln(pieces) == pieces \o <<"\n">>

write_filename_line(text) == writeln(W("\t.file \"") \o W(text) \o W("\""))

emit_label_line(l) == writeln(DisplayLabel(l) \o W(":"))

declare_global_line(l) == writeln(W("\t.global ") \o W(l.label))

begin_text_line == writeln(W("\t.text"))

empty_line_line == writeln(<<>>)

comment_line(text) == writeln(W("\t# ") \o W(text))

\* Mutant of build_mov_line: the operands are written destination first.
build_mov_line_dst_first(dst, src) ==
    IF get_size(dst, src) = SizePanic THEN LinePanic
    ELSE writeln(W("\tmov") \o W(ArgSize_suffix(get_size(dst, src))) \o W(" ")
                 \o DisplayArg(dst) \o W(", ") \o DisplayArg(src))

build_mov_line(dst, src) ==
    IF get_size(dst, src) = SizePanic THEN LinePanic
    ELSE writeln(W("\tmov") \o W(ArgSize_suffix(get_size(dst, src))) \o W(" ")
                 \o DisplayArg(src) \o W(", ") \o DisplayArg(dst))

build_cmov_line(c, dst, src) ==
    writeln(W("\tcmov") \o W(Condition_suffix(c)) \o W(" ")
            \o DisplayArg(src) \o W(", ") \o DisplayArg(dst))

build_push_line(src) ==
    IF Arg_size(src) = None THEN LinePanic
    ELSE writeln(W("\tpush") \o W(ArgSize_suffix(unwrap(Arg_size(src)))) \o W(" ")
                 \o DisplayArg(src))

\* Mutant of build_pop_line: an operand without a size is popped as a quad.
build_pop_line_default_quad(dst) ==
    IF Arg_size(dst) = None
    THEN writeln(W("\tpop") \o W(ArgSize_suffix("Quad")) \o W(" ") \o DisplayArg(dst))
    ELSE writeln(W("\tpop") \o W(ArgSize_suffix(unwrap(Arg_size(dst)))) \o W(" ")
                 \o DisplayArg(dst))

build_pop_line(dst) ==
    IF Arg_size(dst) = None THEN LinePanic
    ELSE writeln(W("\tpop") \o W(ArgSize_suffix(unwrap(Arg_size(dst)))) \o W(" ")
                 \o DisplayArg(dst))

build_binary_op_single_line(op, dst, src) ==
    IF get_size(dst, src) = SizePanic THEN LinePanic
    ELSE writeln(W("\t") \o W(BinaryOpSingle_mnemonic(op))
                 \o W(ArgSize_suffix(get_size(dst, src))) \o W(" ")
                 \o DisplayArg(src) \o W(", ") \o DisplayArg(dst))

build_unary_op_single_line(op, dst) ==
    IF Arg_size(dst) = None THEN LinePanic
    ELSE writeln(W("\t") \o W(UnaryOpSingle_mnemonic(op))
                 \o W(ArgSize_suffix(unwrap(Arg_size(dst)))) \o W(" ")
                 \o DisplayArg(dst))

\* Mutant of build_call_line: only a memory operand is taken to need the star.
build_call_line_memory_only(dst) ==
    LET needs_star == is_memory(dst)
        star == IF needs_star THEN "*" ELSE ""
    IN  writeln(W("\tcall ") \o W(star) \o DisplayArg(dst))

build_call_line(dst) ==
    LET needs_star == is_memory(dst) \/ is_register(dst)
        star == IF needs_star THEN "*" ELSE ""
    IN  writeln(W("\tcall ") \o W(star) \o DisplayArg(dst))

build_jmp_line(dst) ==
    LET needs_star == is_memory(dst) \/ is_register(dst)
        star == IF needs_star THEN "*" ELSE ""
    IN  writeln(W("\tjmp ") \o W(star) \o DisplayArg(dst))

build_cjmp_line(c, dst) ==
    writeln(W("\tj") \o W(Condition_suffix(c)) \o W(" ") \o DisplayArg(dst))

build_nonary_op_line(op) == writeln(W("\t") \o W(NonaryOp_mnemonic(op)))

\* The operands the emission calls and get_size are exercised with.
SampleRegisters ==
    {rax, rbx, eax, with_size("A", "Word"), with_size("A", "Byte"),
     with_size("SP", "Quad"), with_size("R12", "Byte")}

SampleInts ==
    {ConstInt("I8", -1), ConstInt("U8", 1), ConstInt("I32", -8),
     ConstInt("U32", 8), ConstInt("I64", 0), ConstInt("U64", 8)}

SampleMemories ==
    {Label_rip(Label("name")),
     size(offset(Label_rip(Label("name")), ConstInt("I32", 8), TRUE), "Quad"),
     Register_memory(rax),
     size(index(Register_memory(rax), rbx, "Four"), "Double"),
     size(offset(index(sib, rbx, "One"), ConstInt("I8", -8), TRUE), "Word"),
     size(sib, "Byte")}

SampleArgs ==
    {ArgRegister(r) : r \in SampleRegisters} \cup {ArgLabel(Label(l)) : l \in LabelNames}
    \cup {ArgInt(c) : c \in SampleInts} \cup {ArgMemory(m) : m \in SampleMemories}

(***************************************************************************)
(* SpecReg: a caller picks any of the 64 registers and renders it.         *)
(***************************************************************************)
\* The parts of the state a specification does not exercise stay as constructed.
RegIdle == reg = rax /\ regtext = None

MemIdle ==
    /\ mem = None
    /\ prev = None
    /\ bcall = [op |-> "none", arg |-> None]
    /\ bpanic = FALSE
    /\ steps = 0
    /\ overflow_checks = TRUE

SizeIdle == opa = ArgRegister(rax) /\ opb = ArgRegister(rax) /\ sizes = None

ArgIdle == operand = ArgRegister(rax) /\ operand_size = None

WriterIdle ==
    /\ caller = [args |-> {}, labels |-> {}, texts |-> {}, conds |-> {},
                 binops |-> {}, unops |-> {}, ncalls |-> 0]
    /\ out = <<>>
    /\ calls = <<>>
    /\ aborted = FALSE

InitReg ==
    /\ reg \in Register
    /\ regtext = None
    /\ MemIdle
    /\ SizeIdle
    /\ ArgIdle
    /\ WriterIdle

\* format!("{reg}"): Display for Register runs on the chosen register.
RenderRegister ==
    /\ regtext = None
    /\ regtext' = Some(DisplayRegister(reg))
    /\ UNCHANGED <<reg, memVars, sizeVars, operandVars, writerVars>>

\* The caller drops the text and takes another register.
PickRegister ==
    /\ regtext # None
    /\ \E r \in Register : reg' = r
    /\ regtext' = None
    /\ UNCHANGED <<memVars, sizeVars, operandVars, writerVars>>

NextReg == RenderRegister \/ PickRegister

SpecReg == InitReg /\ [][NextReg]_vars

(***************************************************************************)
(* SpecMem: a caller builds one Memory operand by a chain of builder       *)
(* calls; a panicking call ends the chain.                                 *)
(***************************************************************************)
MaxBuilderCalls == 3

BuilderRegs == {rax, rbx}

I8Inputs == {-8, 8}
U8Inputs == {8}
I32Inputs == {-8, 0, 8, I32Max}
U32Inputs == {8}
I64Inputs == {-8, 8}
U64Inputs == {0, 8}

\* disp: impl Into<ConstInt>, one From impl per primitive integer type
OffsetInputs ==
    {ConstInt("I8", v) : v \in I8Inputs} \cup {ConstInt("U8", v) : v \in U8Inputs}
    \cup {ConstInt("I32", v) : v \in I32Inputs} \cup {ConstInt("U32", v) : v \in U32Inputs}
    \cup {ConstInt("I64", v) : v \in I64Inputs} \cup {ConstInt("U64", v) : v \in U64Inputs}

InitMem ==
    /\ mem = None
    /\ prev = None
    /\ bcall = [op |-> "none", arg |-> None]
    /\ bpanic = FALSE
    /\ steps = 0
    /\ overflow_checks \in BOOLEAN
    /\ RegIdle
    /\ SizeIdle
    /\ ArgIdle
    /\ WriterIdle

\* A constructor call: the chain starts with the Memory it returns.
Construct(op, arg, m) ==
    /\ mem' = Some(m)
    /\ prev' = None
    /\ bcall' = [op |-> op, arg |-> arg]
    /\ UNCHANGED <<bpanic, steps, overflow_checks, regVars, sizeVars, operandVars, writerVars>>

\* The caller goes on with the chain: it holds a Memory and no call has panicked.
CanChain == mem # None /\ ~bpanic /\ steps < MaxBuilderCalls

\* A builder call on the chain's Memory: res is the Memory it returns, or Panic.
Chain(op, arg, res) ==
    /\ steps' = steps + 1
    /\ prev' = mem
    /\ bcall' = [op |-> op, arg |-> arg]
    /\ bpanic' = (res = Panic)
    /\ mem' = IF res = Panic THEN mem ELSE Some(res)
    /\ UNCHANGED <<overflow_checks, regVars, sizeVars, operandVars, writerVars>>

MemorySib ==
    /\ mem = None
    /\ Construct("sib", None, sib)

MemoryRip ==
    /\ mem = None
    /\ Construct("rip", None, rip)

LabelRip ==
    /\ mem = None
    /\ \E l \in LabelNames : Construct("Label::rip", Label(l), Label_rip(Label(l)))

RegisterMemory ==
    /\ mem = None
    /\ \E r \in BuilderRegs : Construct("Register::memory", r, Register_memory(r))

MemoryBase ==
    /\ CanChain
    /\ \E r \in BuilderRegs : Chain("base", r, base(unwrap(mem), r))

MemoryIndex ==
    /\ CanChain
    /\ \E r \in BuilderRegs, sc \in Scale :
            Chain("index", <<r, sc>>, index(unwrap(mem), r, sc))

MemoryOffset ==
    /\ CanChain
    /\ \E d \in OffsetInputs :
            Chain("offset", d, offset(unwrap(mem), d, overflow_checks))

MemoryLabel ==
    /\ CanChain
    /\ \E l \in LabelNames : Chain("label", Label(l), label(unwrap(mem), Label(l)))

MemorySize ==
    /\ CanChain
    /\ \E sz \in ArgSize : Chain("size", sz, size(unwrap(mem), sz))

NextMem ==
    \/ MemorySib
    \/ MemoryRip
    \/ LabelRip
    \/ RegisterMemory
    \/ MemoryBase
    \/ MemoryIndex
    \/ MemoryOffset
    \/ MemoryLabel
    \/ MemorySize

SpecMem == InitMem /\ [][NextMem]_vars

(***************************************************************************)
(* SpecSize: get_size applied to a pair of operands, in both orders.       *)
(***************************************************************************)
InitSize ==
    /\ opa \in SampleArgs
    /\ opb \in SampleArgs
    /\ sizes = None
    /\ RegIdle
    /\ MemIdle
    /\ ArgIdle
    /\ WriterIdle

\* get_size(&a, &b) and get_size(&b, &a)
InferSize ==
    /\ sizes = None
    /\ sizes' = Some(<<get_size(opa, opb), get_size(opb, opa)>>)
    /\ UNCHANGED <<opa, opb, regVars, memVars, operandVars, writerVars>>

\* The caller takes another pair of operands.
PickOperands ==
    /\ sizes # None
    /\ \E a \in SampleArgs, b \in SampleArgs : opa' = a /\ opb' = b
    /\ sizes' = None
    /\ UNCHANGED <<regVars, memVars, operandVars, writerVars>>

NextSize == InferSize \/ PickOperands

SpecSize == InitSize /\ [][NextSize]_vars

(***************************************************************************)
(* SpecArg: Arg::size applied to one operand: any register, the labels,    *)
(* immediates of every variant and memories with and without a size.       *)
(***************************************************************************)
IntInputs ==
    OffsetInputs \cup {ConstInt(v, 0) : v \in Variants} \cup {ConstInt(v, 1) : v \in Variants}

MemoryInputs ==
    SampleMemories
    \cup {sib, rip, offset(rip, ConstInt("U64", 8), TRUE)}
    \cup {size(m, sz) : m \in {sib, Label_rip(Label("f")), Register_memory(rbx)}, sz \in ArgSize}

ArgInputs ==
    {ArgRegister(r) : r \in Register} \cup {ArgLabel(Label(l)) : l \in LabelNames \cup {""}}
    \cup {ArgInt(c) : c \in IntInputs} \cup {ArgMemory(m) : m \in MemoryInputs}

InitArg ==
    /\ operand \in ArgInputs
    /\ operand_size = None
    /\ RegIdle
    /\ MemIdle
    /\ SizeIdle
    /\ WriterIdle

\* operand.size()
TakeSize ==
    /\ operand_size = None
    /\ operand_size' = Some(Arg_size(operand))
    /\ UNCHANGED <<operand, regVars, memVars, sizeVars, writerVars>>

\* The caller takes another operand.
PickArg ==
    /\ operand_size # None
    /\ \E a \in ArgInputs : operand' = a
    /\ operand_size' = None
    /\ UNCHANGED <<regVars, memVars, sizeVars, writerVars>>

NextArg == TakeSize \/ PickArg

SpecArg == InitArg /\ [][NextArg]_vars

(***************************************************************************)
(* Spec, SpecEmit: a caller makes AsmWriter calls on one writer.  The sink *)
(* (any io::Write) takes the pieces of a line one write at a time and may  *)
(* fail any of them; out records every write it was asked for.  In Spec    *)
(* the caller makes up to MaxCalls calls with few operands, in SpecEmit    *)
(* one call with any operation and any of the sample operands.             *)
(***************************************************************************)
MaxCalls == 2

MaxFailures == 1

Failures(log) == Cardinality({i \in DOMAIN log : ~log[i].ok})

Pieces(log) == [i \in DOMAIN log |-> log[i].piece]

\* The text the sink holds: the pieces of the writes that succeeded.
Content(log) == Flatten(Pieces(SelectSeq(log, LAMBDA w : w.ok)))

\* Mutant of Attempts: a failed write is tried a second time.
Attempts_retry(line, k) ==
    [i \in 1..(IF k < Len(line) THEN k + 2 ELSE k) |->
        [piece |-> line[IF i <= k THEN i ELSE k + 1], ok |-> i <= k]]

\* The writes of a line whose first k pieces the sink accepts: write k + 1, if
\* there is one, fails and ends the formatting.
Attempts(line, k) ==
    [i \in 1..(IF k < Len(line) THEN k + 1 ELSE k) |-> [piece |-> line[i], ok |-> i <= k]]

Init ==
    /\ caller = [args |-> {ArgRegister(rax), ArgLabel(Label("f"))},
                 labels |-> {Label("f")},
                 texts |-> {"a.c"},
                 conds |-> {"GreaterThan"},
                 binops |-> {"Add"},
                 unops |-> {"Neg"},
                 ncalls |-> MaxCalls]
    /\ out = <<>>
    /\ calls = <<>>
    /\ aborted = FALSE
    /\ RegIdle
    /\ MemIdle
    /\ SizeIdle
    /\ ArgIdle

InitEmit ==
    /\ caller = [args |-> SampleArgs,
                 labels |-> {Label(l) : l \in LabelNames},
                 texts |-> {"a.c", ""},
                 conds |-> Condition,
                 binops |-> BinaryOpSingle,
                 unops |-> UnaryOpSingle,
                 ncalls |-> 1]
    /\ out = <<>>
    /\ calls = <<>>
    /\ aborted = FALSE
    /\ RegIdle
    /\ MemIdle
    /\ SizeIdle
    /\ ArgIdle

\* A caller whose operands have two different sizes or none, so that a later
\* call can fail on its operands' sizes in each way get_size and unwrap can.
InitMixed ==
    /\ caller = [args |-> {ArgRegister(rax), ArgRegister(eax), ArgLabel(Label("f"))},
                 labels |-> {Label("f")},
                 texts |-> {"a.c"},
                 conds |-> {"GreaterThan"},
                 binops |-> {"Add"},
                 unops |-> {"Neg"},
                 ncalls |-> 2]
    /\ out = <<>>
    /\ calls = <<>>
    /\ aborted = FALSE
    /\ RegIdle
    /\ MemIdle
    /\ SizeIdle
    /\ ArgIdle

\* The caller goes on: no call has panicked and it has calls left to make.
CanCall == ~aborted /\ Len(calls) < caller.ncalls

\* One AsmWriter call that formats line: a panic before the write leaves the
\* sink alone and aborts; otherwise the pieces go to the sink in order until
\* one write fails, and the call returns Ok or that write's error.
\* Mutant of Perform: the tab is written before the operand sizes are looked at.
Perform_write_first(op, tag, args, line) ==
    /\ IF line = LinePanic
       THEN /\ aborted' = TRUE
            /\ out' = Append(out, [piece |-> "\t", ok |-> TRUE])
            /\ calls' = Append(calls, [op |-> op, tag |-> tag, args |-> args, line |-> line,
                                       result |-> "Panic", nwrites |-> 1])
       ELSE \E k \in 0..Len(line) :
                /\ k < Len(line) => Failures(out) < MaxFailures
                /\ aborted' = aborted
                /\ out' = out \o Attempts(line, k)
                /\ calls' = Append(calls, [op |-> op, tag |-> tag, args |-> args, line |-> line,
                                           result |-> IF k = Len(line) THEN "Ok" ELSE "Err",
                                           nwrites |-> Len(Attempts(line, k))])
    /\ UNCHANGED <<caller, regVars, memVars, sizeVars, operandVars>>

Perform(op, tag, args, line) ==
    /\ IF line = LinePanic
       THEN /\ aborted' = TRUE
            /\ out' = out
            /\ calls' = Append(calls, [op |-> op, tag |-> tag, args |-> args, line |-> line,
                                       result |-> "Panic", nwrites |-> 0])
       ELSE \E k \in 0..Len(line) :
                /\ k < Len(line) => Failures(out) < MaxFailures
                /\ aborted' = aborted
                /\ out' = out \o Attempts(line, k)
                /\ calls' = Append(calls, [op |-> op, tag |-> tag, args |-> args, line |-> line,
                                           result |-> IF k = Len(line) THEN "Ok" ELSE "Err",
                                           nwrites |-> Len(Attempts(line, k))])
    /\ UNCHANGED <<caller, regVars, memVars, sizeVars, operandVars>>

write_filename ==
    /\ CanCall
    /\ \E text \in caller.texts :
            Perform("write_filename", None, <<text>>, write_filename_line(text))

emit_label ==
    /\ CanCall
    /\ \E l \in caller.labels : Perform("emit_label", None, <<l>>, emit_label_line(l))

declare_global ==
    /\ CanCall
    /\ \E l \in caller.labels : Perform("declare_global", None, <<l>>, declare_global_line(l))

begin_text ==
    /\ CanCall
    /\ Perform("begin_text", None, <<>>, begin_text_line)

empty_line ==
    /\ CanCall
    /\ Perform("empty_line", None, <<>>, empty_line_line)

comment ==
    /\ CanCall
    /\ \E text \in caller.texts : Perform("comment", None, <<text>>, comment_line(text))

build_mov ==
    /\ CanCall
    /\ \E dst \in caller.args, src \in caller.args :
            Perform("build_mov", None, <<dst, src>>, build_mov_line(dst, src))

build_cmov ==
    /\ CanCall
    /\ \E c \in caller.conds, dst \in caller.args, src \in caller.args :
            Perform("build_cmov", c, <<dst, src>>, build_cmov_line(c, dst, src))

build_push ==
    /\ CanCall
    /\ \E src \in caller.args : Perform("build_push", None, <<src>>, build_push_line(src))

build_pop ==
    /\ CanCall
    /\ \E dst \in caller.args : Perform("build_pop", None, <<dst>>, build_pop_line(dst))

\* build_binary_op and its wrappers build_add ... build_sar
build_binary_op ==
    /\ CanCall
    /\ \E op \in caller.binops, dst \in caller.args, src \in caller.args :
            Perform("build_binary_op", op, <<dst, src>>,
                    build_binary_op_single_line(op, dst, src))

\* build_unary_op and its wrappers build_inc ... build_idiv
build_unary_op ==
    /\ CanCall
    /\ \E op \in caller.unops, dst \in caller.args :
            Perform("build_unary_op", op, <<dst>>, build_unary_op_single_line(op, dst))

build_call ==
    /\ CanCall
    /\ \E dst \in caller.args : Perform("build_call", None, <<dst>>, build_call_line(dst))

build_jmp ==
    /\ CanCall
    /\ \E dst \in caller.args : Perform("build_jmp", None, <<dst>>, build_jmp_line(dst))

build_cjmp ==
    /\ CanCall
    /\ \E c \in caller.conds, dst \in caller.args :
            Perform("build_cjmp", c, <<dst>>, build_cjmp_line(c, dst))

build_nonary_op ==
    /\ CanCall
    /\ \E op \in NonaryOp : Perform("build_nonary_op", op, <<>>, build_nonary_op_line(op))

build_ret ==
    /\ CanCall
    /\ Perform("build_ret", None, <<>>, build_nonary_op_line("Ret"))

Next ==
    \/ write_filename
    \/ emit_label
    \/ declare_global
    \/ begin_text
    \/ empty_line
    \/ comment
    \/ build_mov
    \/ build_cmov
    \/ build_push
    \/ build_pop
    \/ build_binary_op
    \/ build_unary_op
    \/ build_call
    \/ build_jmp
    \/ build_cjmp
    \/ build_nonary_op
    \/ build_ret

Spec == Init /\ [][Next]_vars

SpecEmit == InitEmit /\ [][Next]_vars

SpecMixed == InitMixed /\ [][Next]_vars

(***************************************************************************)
(* C10: register rendering                                                 *)
(***************************************************************************)
\* The affix table of the claim, written out per family and width.
C10Family(n) ==
    {f \in {"accumulator", "pointer", "numbered"} :
        \/ f = "accumulator" /\ n \in {"A", "B", "C", "D"}
        \/ f = "pointer" /\ n \in {"SI", "DI", "SP", "BP"}
        \/ f = "numbered" /\ n \in {"R8", "R9", "R10", "R11", "R12", "R13", "R14", "R15"}}

C10Affix(f, s) ==
    CASE f = "accumulator" /\ s = "Byte" -> <<"", "l">>
      [] f = "accumulator" /\ s = "Word" -> <<"", "x">>
      [] f = "accumulator" /\ s = "Double" -> <<"e", "x">>
      [] f = "accumulator" /\ s = "Quad" -> <<"r", "x">>
      [] f = "pointer" /\ s = "Byte" -> <<"", "l">>
      [] f = "pointer" /\ s = "Word" -> <<"", "">>
      [] f = "pointer" /\ s = "Double" -> <<"e", "">>
      [] f = "pointer" /\ s = "Quad" -> <<"r", "">>
      [] f = "numbered" /\ s = "Byte" -> <<"", "b">>
      [] f = "numbered" /\ s = "Word" -> <<"", "w">>
      [] f = "numbered" /\ s = "Double" -> <<"", "d">>
      [] f = "numbered" /\ s = "Quad" -> <<"", "">>

C10BaseName ==
    [n \in RegisterName |->
        CASE n = "A" -> "a" [] n = "B" -> "b" [] n = "C" -> "c" [] n = "D" -> "d"
          [] n = "SI" -> "si" [] n = "DI" -> "di" [] n = "SP" -> "sp" [] n = "BP" -> "bp"
          [] n = "R8" -> "r8" [] n = "R9" -> "r9" [] n = "R10" -> "r10"
          [] n = "R11" -> "r11" [] n = "R12" -> "r12" [] n = "R13" -> "r13"
          [] n = "R14" -> "r14" [] n = "R15" -> "r15"]

C10Text(r) ==
    LET f == CHOOSE x \in C10Family(r[1]) : TRUE
    IN  "%" \o C10Affix(f, r[2])[1] \o C10BaseName[r[1]] \o C10Affix(f, r[2])[2]

C10Examples ==
    /\ reg = <<"A", "Byte">> => Flatten(unwrap(regtext)) = "%al"
    /\ reg = <<"A", "Quad">> => Flatten(unwrap(regtext)) = "%rax"
    /\ reg = <<"SP", "Word">> => Flatten(unwrap(regtext)) = "%sp"
    /\ reg = <<"SP", "Quad">> => Flatten(unwrap(regtext)) = "%rsp"
    /\ reg = <<"R12", "Byte">> => Flatten(unwrap(regtext)) = "%r12b"
    /\ reg = <<"R12", "Quad">> => Flatten(unwrap(regtext)) = "%r12"

\* C10: every one of the 16 x 4 registers renders as % + prefix + base name +
\* suffix with the affixes of the table of its family, every name is in
\* exactly one family, and the unreachable!() branch is never taken.
C10_RegisterRendering ==
    regtext # None =>
        /\ Cardinality(C10Family(reg[1])) = 1
        /\ unwrap(regtext) # Unreachable
        /\ Flatten(unwrap(regtext)) = C10Text(reg)
        /\ C10Examples

\* A pointer-family register has been rendered at word width (no affix at all).
C10_Witness == reg = <<"BP", "Word">> /\ regtext = Some(<<"%", "bp">>)

(***************************************************************************)
(* C2: Memory::offset                                                      *)
(***************************************************************************)
\* c + d is a value of the 32-bit signed type.
C2Fits(c, d) ==
    c.variant = "I32" =>
        /\ (d.v > 0 => c.v <= I32Max - d.v)
        /\ (d.v < 0 => c.v >= I32Min - d.v)

\* C2: offset(d) on a Memory holding the constant c succeeds exactly when d
\* has the variant of c, for all six variants, and then stores c + d in that
\* variant; on a Memory without a constant it stores d.
C2_OffsetSameVariant ==
    bcall.op = "offset" =>
        LET m == unwrap(prev)
            d == bcall.arg
        IN  IF m.displacement_constant = None
            THEN ~bpanic /\ unwrap(mem).displacement_constant = Some(d)
            ELSE LET c == unwrap(m.displacement_constant)
                 IN  /\ ~bpanic <=> c.variant = d.variant
                     /\ (~bpanic /\ C2Fits(c, d)) =>
                            unwrap(mem).displacement_constant
                                = Some(ConstInt(c.variant, c.v + d.v))

(***************************************************************************)
(* C7: Memory::label, Memory::base, Memory::index                          *)
(***************************************************************************)
\* C7: label(l) panics exactly when a label is already attached (also one
\* attached by Label::rip), so an attached label is never replaced or joined
\* by a second one; base(r) and index(r, s) panic exactly on RIP-relative
\* memory and succeed on SIB memory.
C7_BuilderContract ==
    /\ bcall.op = "Label::rip" =>
            unwrap(mem).displacement_label = Some(bcall.arg)
    /\ bcall.op = "label" =>
            /\ bpanic <=> is_some(unwrap(prev).displacement_label)
            /\ ~bpanic => unwrap(mem).displacement_label = Some(bcall.arg)
    /\ (prev # None /\ is_some(unwrap(prev).displacement_label)) =>
            unwrap(mem).displacement_label = unwrap(prev).displacement_label
    /\ bcall.op \in {"base", "index"} =>
            /\ unwrap(prev).kind.tag \in {"Rip", "Sib"}
            /\ bpanic <=> unwrap(prev).kind.tag = "Rip"
            /\ ~bpanic <=> unwrap(prev).kind.tag = "Sib"
    /\ (bcall.op = "base" /\ ~bpanic) => unwrap(mem).kind.m.base = Some(bcall.arg)
    /\ (bcall.op = "index" /\ ~bpanic) => unwrap(mem).kind.m.index = Some(bcall.arg)

\* label() was called on the Memory Label::rip() returned, and panicked.
C7_Witness ==
    /\ bcall.op = "label"
    /\ bpanic
    /\ steps = 1
    /\ unwrap(prev).kind = Rip
    /\ unwrap(prev).displacement_label = Some(Label("name"))

(***************************************************************************)
(* C8: the displacement of a rendered Memory                               *)
(***************************************************************************)
C8Displacement(m) ==
    LET haslabel == m.displacement_label # None
        c == unwrap(m.displacement_constant)
    IN  (IF haslabel THEN unwrap(m.displacement_label).label ELSE "")
        \o (IF m.displacement_constant # None /\ c.v # 0
            THEN (IF haslabel /\ c.v >= 0 THEN "+" ELSE "") \o DecStr(c.v)
            ELSE "")

C8Examples ==
    /\ mem = Some(Label_rip(Label("name"))) =>
            Flatten(DisplayMemory(unwrap(mem))) = "name(%rip)"
    /\ \A v \in Variants :
            mem = Some(offset(Label_rip(Label("name")), ConstInt(v, 8), TRUE)) =>
                Flatten(DisplayMemory(unwrap(mem))) = "name+8(%rip)"
    /\ \A v \in {"I8", "I32", "I64"} :
            mem = Some(offset(Label_rip(Label("name")), ConstInt(v, -8), TRUE)) =>
                Flatten(DisplayMemory(unwrap(mem))) = "name-8(%rip)"
    /\ \A v \in Variants :
            mem = Some(offset(Label_rip(Label("name")), ConstInt(v, 0), TRUE)) =>
                Flatten(DisplayMemory(unwrap(mem))) = "name(%rip)"

\* C8: a Memory renders its label first if it has one, then its constant
\* only if present and non-zero, with a + between them exactly when a label
\* is present and the constant is non-negative; RIP-relative memory then
\* renders (%rip).
C8_DisplacementRendering ==
    mem # None =>
        LET m == unwrap(mem)
        IN  /\ Flatten(DisplayMemory(m))
                  = C8Displacement(m) \o Flatten(DisplayMemoryKind(m.kind))
            /\ m.kind = Rip => Flatten(DisplayMemory(m)) = C8Displacement(m) \o "(%rip)"
            /\ C8Examples

\* A RIP-relative Memory with a label and a negative 8-bit constant.
C8_Witness ==
    /\ mem # None
    /\ unwrap(mem).kind = Rip
    /\ unwrap(mem).displacement_label = Some(Label("name"))
    /\ unwrap(mem).displacement_constant = Some(ConstInt("I8", -8))

(***************************************************************************)
(* C9: the addressing group of a rendered SIB Memory                       *)
(***************************************************************************)
C9ScaleText(sc) ==
    CASE sc = "One" -> "1" [] sc = "Two" -> "2" [] sc = "Four" -> "4" [] sc = "Eight" -> "8"

C9Group(m) ==
    IF m.base = None /\ m.index = None THEN ""
    ELSE "("
         \o (IF m.base # None THEN Flatten(DisplayRegister(unwrap(m.base))) ELSE "")
         \o (IF m.index # None
             THEN ", " \o Flatten(DisplayRegister(unwrap(m.index)[1]))
                  \o (IF unwrap(m.index)[2] # "One"
                      THEN ", " \o C9ScaleText(unwrap(m.index)[2])
                      ELSE "")
             ELSE "")
         \o ")"

C9Examples ==
    /\ mem = Some(offset(index(Register_memory(rax), rbx, "Four"), ConstInt("I32", 8), TRUE)) =>
            Flatten(DisplayMemory(unwrap(mem))) = "8(%rax, %rbx, 4)"
    /\ mem = Some(index(Register_memory(rax), rbx, "One")) =>
            Flatten(DisplayMemory(unwrap(mem))) = "(%rax, %rbx)"
    /\ mem = Some(index(sib, rbx, "Two")) =>
            Flatten(DisplayMemory(unwrap(mem))) = "(, %rbx, 2)"
    /\ mem = Some(sib) => Flatten(DisplayMemory(unwrap(mem))) = ""

\* C9: a SIB Memory renders its parenthesized group iff it has a base or an
\* index; the base comes first, an index is rendered as ", index" even
\* without a base, and ", scale" follows iff there is an index whose scale
\* is not 1.
C9_SibRendering ==
    (mem # None /\ unwrap(mem).kind.tag = "Sib") =>
        /\ Flatten(DisplaySibMemory(unwrap(mem).kind.m)) = C9Group(unwrap(mem).kind.m)
        /\ C9Examples

\* A SIB Memory with an index of scale 1 and no base.
C9_Witness ==
    /\ mem # None
    /\ unwrap(mem).kind = Sib([base |-> None, index |-> Some(<<rbx, "One">>)])
    /\ DisplayMemory(unwrap(mem)) = <<"(", ", ", "%", "r", "b", "x", ")">>

(***************************************************************************)
(* C3, C4: size inference                                                  *)
(***************************************************************************)
\* The size an operand declares, as the set of its known sizes (empty or one).
C3Known(a) ==
    {sz \in ArgSize :
        \/ a[1] = "Register" /\ a[2][2] = sz
        \/ a[1] = "Int" /\ a[2].variant \in {"I8", "U8"} /\ sz = "Byte"
        \/ a[1] = "Int" /\ a[2].variant \in {"I32", "U32"} /\ sz = "Double"
        \/ a[1] = "Int" /\ a[2].variant \in {"I64", "U64"} /\ sz = "Quad"
        \/ a[1] = "Memory" /\ a[2].size = <<sz>>}

\* C3: get_size returns the single known size when exactly one operand has
\* one, the shared size when both have the same one, and panics exactly when
\* neither has a known size or the two known sizes differ.
C3_SizeInference ==
    sizes # None =>
        LET ka == C3Known(opa)
            kb == C3Known(opb)
            res == unwrap(sizes)[1]
        IN  /\ (ka # {} /\ kb = {}) => {res} = ka
            /\ (ka = {} /\ kb # {}) => {res} = kb
            /\ (ka # {} /\ kb # {} /\ ka = kb) => {res} = ka
            /\ res = SizePanic <=> ((ka = {} /\ kb = {}) \/ (ka # {} /\ kb # {} /\ ka # kb))

\* get_size has panicked on two operands of different known sizes.
C3_Witness ==
    /\ sizes = Some(<<SizePanic, SizePanic>>)
    /\ opa = ArgRegister(eax)
    /\ opb = ArgInt(ConstInt("U64", 8))

\* C4: get_size(a, b) and get_size(b, a) both panic or both return the same size.
C4_SizeInferenceCommutes ==
    sizes # None => unwrap(sizes)[1] = unwrap(sizes)[2]

\* Both orders of a sized register and a label have given the register's size.
C4_Witness ==
    /\ sizes = Some(<<"Word", "Word">>)
    /\ opa = ArgLabel(Label("f"))
    /\ opb = ArgRegister(with_size("A", "Word"))

(***************************************************************************)
(* C1: the indirection marker of call, jmp and j<cc>                       *)
(***************************************************************************)
C1Marker(arg) == IF arg[1] \in {"Register", "Memory"} THEN <<"*">> ELSE <<>>

C1Call(call) ==
    call.op = "build_call" =>
        call.line = <<"\tcall ">> \o C1Marker(call.args[1])
                    \o DisplayArg(call.args[1]) \o <<"\n">>

C1Jmp(call) ==
    call.op = "build_jmp" =>
        call.line = <<"\tjmp ">> \o C1Marker(call.args[1])
                    \o DisplayArg(call.args[1]) \o <<"\n">>

C1Examples(call) ==
    /\ (call.op = "build_call" /\ call.args[1] = ArgRegister(rax)) =>
            Flatten(call.line) = "\tcall *%rax\n"
    /\ (call.op = "build_call" /\ call.args[1] = ArgLabel(Label("f"))) =>
            Flatten(call.line) = "\tcall f\n"
    /\ (call.op = "build_jmp" /\ call.args[1] = ArgMemory(Label_rip(Label("name")))) =>
            Flatten(call.line) = "\tjmp *name(%rip)\n"
    /\ (call.op = "build_jmp" /\ call.args[1] = ArgInt(ConstInt("U8", 1))) =>
            Flatten(call.line) = "\tjmp $1\n"

\* C1 as stated: build_call, build_jmp and build_cjmp alike put the marker *
\* before the operand iff the operand is a Register or a Memory.
C1_MarkerOnAllThree ==
    \A i \in DOMAIN calls :
        /\ C1Call(calls[i])
        /\ C1Jmp(calls[i])
        /\ calls[i].op = "build_cjmp" =>
                calls[i].line = <<"\tj", Condition_suffix(calls[i].tag), " ">>
                                \o C1Marker(calls[i].args[1])
                                \o DisplayArg(calls[i].args[1]) \o <<"\n">>

\* C1 amended: build_call and build_jmp put the marker * before the operand
\* iff the operand is a Register or a Memory; build_cjmp never writes the
\* marker, whatever the operand.  What a call that returns Ok formatted is
\* what the sink received.
C1_MarkerOnCallAndJmp ==
    \A i \in DOMAIN calls :
        /\ C1Call(calls[i])
        /\ C1Jmp(calls[i])
        /\ C1Examples(calls[i])
        /\ calls[i].op = "build_cjmp" =>
                calls[i].line = <<"\tj", Condition_suffix(calls[i].tag), " ">>
                                \o DisplayArg(calls[i].args[1]) \o <<"\n">>
        /\ (calls[i].op \in {"build_call", "build_jmp", "build_cjmp"}
            /\ calls[i].result = "Ok" /\ Len(calls) = 1) =>
                Pieces(out) = calls[i].line

\* build_cjmp has been called with a register and the sink holds the line, no marker in it.
C1_Witness ==
    /\ Len(calls) = 1
    /\ calls[1].op = "build_cjmp"
    /\ calls[1].args = <<ArgRegister(rax)>>
    /\ calls[1].result = "Ok"
    /\ Content(out) = "\tjg %rax\n"

(***************************************************************************)
(* C5, C6: the writer and its sink                                         *)
(***************************************************************************)
\* The writes call i caused: the nwrites entries of out after those of the calls before it.
RECURSIVE WritesBefore(_)
WritesBefore(i) == IF i = 1 THEN 0 ELSE WritesBefore(i - 1) + calls[i - 1].nwrites

Segment(i) == SubSeq(out, WritesBefore(i) + 1, WritesBefore(i) + calls[i].nwrites)

RECURSIVE LinesOf(_)
LinesOf(cs) == IF cs = <<>> THEN <<>> ELSE LinesOf(SubSeq(cs, 1, Len(cs) - 1)) \o cs[Len(cs)].line

Returned == SelectSeq(calls, LAMBDA c : c.result # "Panic")

C6_WriteFailure ==
    /\ aborted <=> (calls # <<>> /\ calls[Len(calls)].result = "Panic")
    /\ Len(out) = WritesBefore(Len(calls) + 1)
    /\ \A i \in DOMAIN calls :
            LET seg == Segment(i)
                n == calls[i].nwrites
            IN  /\ calls[i].result = "Err" <=> Failures(seg) > 0
                /\ calls[i].result = "Err" =>
                        /\ Failures(seg) = 1
                        /\ ~seg[n].ok
                        /\ n <= Len(calls[i].line)
                /\ calls[i].result # "Panic" =>
                        /\ n >= 1
                        /\ Pieces(seg) = SubSeq(calls[i].line, 1, n)

\* A call failed after part of its line was written, and the next call wrote its whole line.
C6_Witness ==
    /\ Len(calls) = 2
    /\ calls[1].result = "Err"
    /\ calls[1].nwrites = 3
    /\ calls[2].result = "Ok"
    /\ Content(out) = "\tmovq\tret\n"

(***************************************************************************)
(* C11: Arg::size                                                          *)
(***************************************************************************)
C11Kinds == {"Register", "Label", "Int", "Memory"}

\* The size the claim gives an operand, as an Option.
C11Size(a) ==
    CASE a[1] = "Register" ->
            <<CASE a[2][2] = "Byte" -> "Byte" [] a[2][2] = "Word" -> "Word"
                [] a[2][2] = "Double" -> "Double" [] a[2][2] = "Quad" -> "Quad">>
      [] a[1] = "Int" ->
            <<CASE a[2].variant \in {"I8", "U8"} -> "Byte"
                [] a[2].variant \in {"I32", "U32"} -> "Double"
                [] a[2].variant \in {"I64", "U64"} -> "Quad">>
      [] a[1] = "Memory" -> a[2].size
      [] a[1] = "Label" -> <<>>

\* C11: Arg.size() is the width class of a Register, byte / double / quad for
\* an 8 / 32 / 64-bit Immediate of either signedness, the declared size of a
\* Memory or absent without one, and absent for every Label; every other
\* kind has operands with a size.
C11_ArgSize ==
    /\ operand_size # None =>
            /\ unwrap(operand_size) = C11Size(operand)
            /\ operand[1] = "Label" => unwrap(operand_size) = <<>>
            /\ operand[1] \in {"Register", "Int"} => unwrap(operand_size) # <<>>
    /\ \A k \in C11Kinds \ {"Label"} : \E a \in ArgInputs : a[1] = k /\ C11Size(a) # <<>>

\* The size of an unsigned 32-bit immediate has been taken: double.
C11_Witness ==
    /\ operand = ArgInt(ConstInt("U32", 8))
    /\ operand_size = Some(Some("Double"))

(***************************************************************************)
(* C12: build_mov and the binary operations                                *)
(***************************************************************************)
C12Mnemonic(c) ==
    IF c.op = "build_mov" THEN "mov"
    ELSE CASE c.tag = "Add" -> "add" [] c.tag = "Sub" -> "sub" [] c.tag = "IMul" -> "imul"
           [] c.tag = "And" -> "and" [] c.tag = "Or" -> "or" [] c.tag = "Xor" -> "xor"
           [] c.tag = "Lea" -> "lea" [] c.tag = "Cmp" -> "cmp" [] c.tag = "Test" -> "test"
           [] c.tag = "Shl" -> "shl" [] c.tag = "Shr" -> "shr" [] c.tag = "Sar" -> "sar"

C12Letter(sz) ==
    CASE sz = "Byte" -> "b" [] sz = "Word" -> "w" [] sz = "Double" -> "l" [] sz = "Quad" -> "q"

\* The sizes the two operands of a call allow: inference succeeds when this
\* is one size.
C12Inferred(c) ==
    LET kd == C3Known(c.args[1])
        ks == C3Known(c.args[2])
    IN  IF kd = {} THEN ks ELSE IF ks = {} THEN kd ELSE kd \cap ks

C12Text(c) ==
    "\t" \o C12Mnemonic(c) \o C12Letter(CHOOSE sz \in C12Inferred(c) : TRUE) \o " "
    \o Flatten(DisplayArg(c.args[2])) \o ", " \o Flatten(DisplayArg(c.args[1])) \o "\n"

C12Calls == {i \in 1..Len(calls) : calls[i].op \in {"build_mov", "build_binary_op"}}

\* C12: when size inference succeeds, build_mov and each of the twelve binary
\* operations write tab, mnemonic, size suffix (b, w, l, q), space, source,
\* comma and space, destination, newline; a call that returned Ok has put
\* exactly that text in the sink.
C12_TwoOperandLine ==
    \A i \in C12Calls :
        /\ calls[i].result # "Panic" <=> Cardinality(C12Inferred(calls[i])) = 1
        /\ calls[i].result # "Panic" => Flatten(calls[i].line) = C12Text(calls[i])
        /\ calls[i].result = "Ok" => Content(Segment(i)) = C12Text(calls[i])

\* build_mov(%rbx, %rax) has written its line.
C12_Witness ==
    /\ Len(calls) = 1
    /\ calls[1].op = "build_mov"
    /\ calls[1].args = <<ArgRegister(rbx), ArgRegister(rax)>>
    /\ calls[1].result = "Ok"
    /\ Content(out) = "\tmovq %rax, %rbx\n"

(***************************************************************************)
(* C13: build_push, build_pop and the unary operations                     *)
(***************************************************************************)
C13Mnemonic(c) ==
    CASE c.op = "build_push" -> "push"
      [] c.op = "build_pop" -> "pop"
      [] c.op = "build_unary_op" ->
            CASE c.tag = "Inc" -> "inc" [] c.tag = "Dec" -> "dec" [] c.tag = "Neg" -> "neg"
              [] c.tag = "Not" -> "not" [] c.tag = "Mul" -> "mul" [] c.tag = "IMul" -> "imul"
              [] c.tag = "Div" -> "div" [] c.tag = "IDiv" -> "idiv"

\* The operands the claim names as having no size.
C13Sizeless(a) == a[1] = "Label" \/ (a[1] = "Memory" /\ a[2].size = <<>>)

C13Text(c) ==
    "\t" \o C13Mnemonic(c) \o C12Letter(CHOOSE sz \in C3Known(c.args[1]) : TRUE) \o " "
    \o Flatten(DisplayArg(c.args[1])) \o "\n"

C13Calls ==
    {i \in 1..Len(calls) : calls[i].op \in {"build_push", "build_pop", "build_unary_op"}}

\* C13: build_push, build_pop and each unary operation panic exactly when
\* the operand is a Label or a Memory without a declared size; otherwise they
\* write tab, mnemonic, the suffix of the operand's size, space, operand,
\* newline, and a call that returned Ok has put exactly that in the sink.
C13_OneOperandLine ==
    \A i \in C13Calls :
        /\ calls[i].result = "Panic" <=> C13Sizeless(calls[i].args[1])
        /\ C13Sizeless(calls[i].args[1]) <=> C3Known(calls[i].args[1]) = {}
        /\ calls[i].result # "Panic" => Flatten(calls[i].line) = C13Text(calls[i])
        /\ calls[i].result = "Ok" => Content(Segment(i)) = C13Text(calls[i])

\* build_pop of a memory operand without a declared size has panicked.
C13_Witness ==
    /\ Len(calls) = 1
    /\ calls[1].op = "build_pop"
    /\ calls[1].args = <<ArgMemory(Register_memory(rax))>>
    /\ calls[1].result = "Panic"
    /\ aborted

(***************************************************************************)
(* C14: build_cjmp and build_cmov                                          *)
(***************************************************************************)
C14Suffix(c) ==
    CASE c = "Zero" -> "z" [] c = "NotZero" -> "nz" [] c = "Equal" -> "e"
      [] c = "NotEqual" -> "ne" [] c = "Negative" -> "s" [] c = "NonNegative" -> "ns"
      [] c = "GreaterThan" -> "g" [] c = "LessThan" -> "l" [] c = "GreaterEqual" -> "ge"
      [] c = "LessEqual" -> "le" [] c = "Above" -> "a" [] c = "Below" -> "b"
      [] c = "AboveEqual" -> "ae" [] c = "BelowEqual" -> "be"

C14Text(c) ==
    IF c.op = "build_cjmp"
    THEN "\tj" \o C14Suffix(c.tag) \o " " \o Flatten(DisplayArg(c.args[1])) \o "\n"
    ELSE "\tcmov" \o C14Suffix(c.tag) \o " " \o Flatten(DisplayArg(c.args[2])) \o ", "
         \o Flatten(DisplayArg(c.args[1])) \o "\n"

C14Calls == {i \in 1..Len(calls) : calls[i].op \in {"build_cjmp", "build_cmov"}}

\* C14: for each of the fourteen conditions and any operands, build_cjmp
\* writes tab, j, the condition suffix, space, operand, newline and build_cmov
\* writes tab, cmov, the condition suffix, space, source, comma and space,
\* destination, newline; neither takes a size suffix nor panics on operands
\* without a size.
C14_ConditionSuffix ==
    \A i \in C14Calls :
        /\ calls[i].tag \in Condition
        /\ calls[i].result # "Panic"
        /\ Flatten(calls[i].line) = C14Text(calls[i])
        /\ calls[i].result = "Ok" => Content(Segment(i)) = C14Text(calls[i])

\* build_cjmp(GreaterThan, f) has written its line.
C14_Witness ==
    /\ Len(calls) = 1
    /\ calls[1].op = "build_cjmp"
    /\ calls[1].tag = "GreaterThan"
    /\ calls[1].args = <<ArgLabel(Label("f"))>>
    /\ calls[1].result = "Ok"
    /\ Content(out) = "\tjg f\n"

(***************************************************************************)
(* C15: a call that fails on its operands' sizes writes nothing            *)
(***************************************************************************)
\* The call violates the operand-size rules: a two-operand call whose sizes
\* are both absent or differ, a one-operand call whose size is absent.
C15Violation(c) ==
    \/ c.op \in {"build_mov", "build_binary_op"} /\ Cardinality(C12Inferred(c)) # 1
    \/ c.op \in {"build_push", "build_pop", "build_unary_op"} /\ C3Known(c.args[1]) = {}

C15Step ==
    (Len(calls') = Len(calls) + 1 /\ C15Violation(calls'[Len(calls')])) =>
        /\ calls'[Len(calls')].result = "Panic"
        /\ aborted'
        /\ out' = out
        /\ Content(out') = Content(out)

\* C15: when build_mov, a binary operation, build_push, build_pop or a unary
\* operation fails on an operand-size violation, the call panics before any
\* write: the sink holds what it held before the call.
C15_PanicWritesNothing == [][C15Step]_vars

\* After one line was written, an add of a quad and a double register has
\* panicked and the sink still holds that one line only.
C15_Witness ==
    /\ Len(calls) = 2
    /\ calls[1].op = "build_ret"
    /\ calls[1].result = "Ok"
    /\ calls[2].op = "build_binary_op"
    /\ calls[2].args = <<ArgRegister(rax), ArgRegister(eax)>>
    /\ calls[2].result = "Panic"
    /\ Content(out) = "\tret\n"

====
